---- MODULE Spec2Model ----
(***************************************************************************)
(* Model of the energy tracker backend (Django app "energy").              *)
(*                                                                         *)
(* State: the Intake, Expenditure and UserProfile tables, and, for every   *)
(* request handler, the position it has reached inside Model.save() /      *)
(* Model.delete() and inside update_previous_day_surplus_calories().       *)
(* Every database query of the recompute is one step, because the code     *)
(* takes no lock and opens no transaction of its own; the one transaction  *)
(* that matters is the one Model.delete() runs its receivers in, which     *)
(* undoes the deletion when the recompute raises.                          *)
(*                                                                         *)
(* Dates are day numbers; a timestamp is a number of hours in local time,  *)
(* so the local date of timestamp t is t \div HoursPerDay.  Labels of      *)
(* intakes and the Weight table do not take part in any computation and    *)
(* are left out.                                                           *)
(***************************************************************************)
EXTENDS Integers, Sequences, FiniteSets, TLC

VARIABLES
    intakes,        \* table energy_intake: set of [id, calories, timestamp]
    expenditures,   \* table energy_expenditure: set of [id, calories, date]
    userprofiles,   \* table energy_userprofile: set of profile rows
    proc,           \* per request handler: position and local variables
    nops,           \* number of record mutations started so far
    overlaps,       \* number of those started while another one was in progress
    response        \* the body of the read request being answered

vars == <<intakes, expenditures, userprofiles, proc, nops, overlaps, response>>

-----------------------------------------------------------------------------
(* Bounds of the model *)

MaxDay == 2
MaxOps == 3
MaxOverlap == 1

(* datetime.time.min .. datetime.time.max span one day of 24 hours *)
HoursPerDay == 24

Procs == {"r1", "r2"}
Days == 0..MaxDay
CalVals == {300, 800}
GoalVals == {-500, 0, 500}
(* One timestamp per day, at the edge of the day: the last hour of an even
   day, the first hour of an odd day (an hour apart across midnight) *)
EdgeHour(d) == IF d % 2 = 0 THEN HoursPerDay - 1 ELSE 0
Timestamps == {d * HoursPerDay + EdgeHour(d) : d \in Days}

-----------------------------------------------------------------------------
(* Pure helpers *)

Abs(x) == IF x < 0 THEN -x ELSE x

Max(a, b) == IF a >= b THEN a ELSE b

RECURSIVE SumCalories(_)
(* Sum("calories") over a queryset *)
SumCalories(rows) ==
    IF rows = {} THEN 0
    ELSE LET r == CHOOSE x \in rows : TRUE
         IN r.calories + SumCalories(rows \ {r})

RECURSIVE SortAsc(_)
(* order_by on a set of distinct keys: the ascending sequence *)
SortAsc(S) ==
    IF S = {} THEN <<>>
    ELSE LET m == CHOOSE x \in S : \A y \in S : x <= y
         IN <<m>> \o SortAsc(S \ {m})

(* timezone.localtime(timestamp).date() *)
LocalDate(timestamp) == timestamp \div HoursPerDay

(* TruncDay("timestamp"): the datetime at local midnight of the same day *)
TruncDay(timestamp) == timestamp - (timestamp % HoursPerDay)

(* Variant: the range ends before the last hour of the day *)
get_datetime_range_for_date_short(date) ==
    <<date * HoursPerDay, date * HoursPerDay + (HoursPerDay - 2)>>

(* get_datetime_range_for_date: combine(date, time.min), combine(date, time.max) *)
get_datetime_range_for_date(date) ==
    <<date * HoursPerDay, date * HoursPerDay + (HoursPerDay - 1)>>

(* aggregate_calories_for_date_range: Sum over timestamp__range, "or 0" *)
aggregate_calories_for_date_range(rows, datetime_start, datetime_end) ==
    SumCalories({r \in rows :
                    datetime_start <= r.timestamp /\ r.timestamp <= datetime_end})

(* Expenditure.objects.filter(date=d).first(), then ".calories if ... else 0" *)
expenditure_calories_on(rows, d) ==
    LET found == {r \in rows : r.date = d}
    IN IF found = {} THEN 0
       ELSE (CHOOSE r \in found : \A s \in found : r.id <= s.id).calories

(* Variant: the timedelta is left out *)
previous_day_same(date) == date

(* previous_day = date - timedelta(days=1) *)
previous_day(date) == date - 1

(* The date the post_save / post_delete receiver derives from the instance *)
update_date(instance) ==
    IF "date" \in DOMAIN instance THEN instance.date
    ELSE LocalDate(instance.timestamp)

-----------------------------------------------------------------------------
(* Profile rows *)

DefaultProfile ==
    [goal_weight |-> -1, goal_daily_calorie_delta |-> 0,
     previous_day_surplus_calories |-> 0]

(* UserProfile.objects.first() on a table of at most one row *)
FirstProfile == CHOOSE u \in userprofiles : TRUE

-----------------------------------------------------------------------------
(* Request handlers *)

NoInstance == [id |-> 0, calories |-> 0, date |-> 0]

IdleProc ==
    [pc |-> "idle", op |-> "none", instance |-> NoInstance, date |-> 0,
     call |-> 0, calls |-> 0, total_intake |-> 0, total_expenditure |-> 0,
     user_profile |-> DefaultProfile, done |-> <<>>, before |-> 0,
     unchanged |-> FALSE]

InRecompute(p) ==
    proc[p].pc \in {"read_intake", "read_expenditure", "read_profile", "save_profile"}

NoResponse == [view |-> "none"]

(* No request is being served *)
Quiescent == response = NoResponse /\ \A p \in Procs : proc[p].pc = "idle"

(* The handler that serves the requests when they arrive one at a time *)
Worker == CHOOSE p \in Procs : TRUE

(* The tables are empty but for the profile created with the user account;
   the user has chosen a goal *)
Init ==
    /\ intakes = {}
    /\ expenditures = {}
    /\ \E g \in GoalVals :
         userprofiles = {[DefaultProfile EXCEPT !.goal_daily_calorie_delta = g]}
    /\ proc = [p \in Procs |-> IdleProc]
    /\ nops = 0
    /\ overlaps = 0
    /\ response = NoResponse

-----------------------------------------------------------------------------
(* update_previous_day_surplus_calories: the arithmetic on the fetched values *)

(* Variant: the unmet part is stored with its sign, without the floor at 0 *)
NewProfileUnclamped(user_profile, total_expenditure, total_intake) ==
    [user_profile EXCEPT !.previous_day_surplus_calories =
        Abs(user_profile.goal_daily_calorie_delta)
            - (total_expenditure - total_intake)]

(* Variant: the unmet part is added to the stored value *)
NewProfileAccumulating(user_profile, total_expenditure, total_intake) ==
    [user_profile EXCEPT !.previous_day_surplus_calories =
        @ + Max(0, Abs(user_profile.goal_daily_calorie_delta)
                      - (total_expenditure - total_intake))]

(* The profile object after the branches on goal_delta have assigned
   previous_day_surplus_calories *)
NewProfile(user_profile, total_expenditure, total_intake) ==
    LET goal_delta == user_profile.goal_daily_calorie_delta
        remaining_calories == total_expenditure - total_intake
        unmet_deficit == Abs(goal_delta) - remaining_calories
        surplus ==
            IF goal_delta < 0
            THEN (IF unmet_deficit > 0 THEN unmet_deficit ELSE 0)
            ELSE (IF remaining_calories < goal_delta
                  THEN goal_delta - remaining_calories
                  ELSE 0)
    IN [user_profile EXCEPT !.previous_day_surplus_calories = surplus]

(* Variant: the body of save() recomputes for the latest day *)
recompute_date_latest(op, call, instance) ==
    IF call = 1 THEN update_date(instance) ELSE MaxDay

(* The date each of the recomputes of one operation is called with: the
   receiver update_surplus_calories runs inside super().save() / delete()
   (call 1), the body of save() recomputes once more (call 2) *)
recompute_date(op, call, instance) ==
    IF call = 1 THEN update_date(instance)
    ELSE IF op \in {"intake_create", "intake_update"}
         THEN LocalDate(instance.timestamp)
         ELSE instance.date

(* Number of recomputes an operation runs: save() two, delete() one *)
recompute_calls(op) ==
    IF op \in {"intake_delete", "expenditure_delete"} THEN 1 ELSE 2

StoredSurplus ==
    IF userprofiles = {} THEN 0 ELSE FirstProfile.previous_day_surplus_calories

(* Variant: no receiver is connected to post_delete *)
AfterWriteNoDeleteSignal(op, instance, same) ==
    IF op \in {"intake_delete", "expenditure_delete"}
    THEN [IdleProc EXCEPT !.pc = "return", !.op = op, !.instance = instance,
                          !.before = StoredSurplus]
    ELSE [IdleProc EXCEPT !.pc = "read_intake", !.op = op, !.instance = instance,
                          !.date = recompute_date(op, 1, instance), !.call = 1,
                          !.calls = recompute_calls(op), !.before = StoredSurplus,
                          !.unchanged = same]

(* The handler's position once the row has been written or deleted *)
AfterWrite(op, instance, same) ==
    [IdleProc EXCEPT !.pc = "read_intake", !.op = op, !.instance = instance,
                     !.date = recompute_date(op, 1, instance), !.call = 1,
                     !.calls = recompute_calls(op), !.before = StoredSurplus,
                     !.unchanged = same]

(* Variant: the date column is not declared unique *)
UniqueViolationOff(id, date) == FALSE

(* The unique constraint on Expenditure.date: another row holds the date *)
UniqueViolation(id, date) ==
    \E r \in expenditures : r.date = date /\ r.id # id

(* The primary key given to a new row.  Keys only tell the rows of a table
   apart, so the smallest key not in use stands for the next key *)
NewId(rows) ==
    LET used == {r.id : r \in rows}
    IN CHOOSE i \in 1..(Cardinality(used) + 1) :
          i \notin used /\ \A j \in 1..(i - 1) : j \in used

(* A request is accepted while the budget of operations lasts *)
CanStart(p) ==
    /\ proc[p].pc = "idle"
    /\ nops < MaxOps
    /\ Quiescent \/ overlaps < MaxOverlap

Started ==
    /\ nops' = nops + 1
    /\ overlaps' = IF Quiescent THEN overlaps ELSE overlaps + 1

-----------------------------------------------------------------------------
(* Intake.save() and delete(): the row write and the dispatch of the signal *)

IntakeCreate(p) ==
    /\ CanStart(p)
    /\ \E cal \in CalVals, ts \in Timestamps :
         LET row == [id |-> NewId(intakes), calories |-> cal, timestamp |-> ts]
         IN /\ intakes' = intakes \cup {row}
            /\ proc' = [proc EXCEPT ![p] = AfterWrite("intake_create", row, FALSE)]
    /\ Started
    /\ UNCHANGED <<expenditures, userprofiles, response>>

IntakeUpdate(p) ==
    /\ CanStart(p)
    /\ \E old \in intakes, cal \in CalVals, ts \in Timestamps :
         LET row == [id |-> old.id, calories |-> cal, timestamp |-> ts]
         IN /\ intakes' = (intakes \ {old}) \cup {row}
            /\ proc' = [proc EXCEPT ![p] = AfterWrite("intake_update", row, row = old)]
    /\ Started
    /\ UNCHANGED <<expenditures, userprofiles, response>>

IntakeDelete(p) ==
    /\ CanStart(p)
    /\ \E old \in intakes :
         /\ intakes' = intakes \ {old}
         /\ proc' = [proc EXCEPT ![p] = AfterWrite("intake_delete", old, FALSE)]
    /\ Started
    /\ UNCHANGED <<expenditures, userprofiles, response>>

-----------------------------------------------------------------------------
(* Expenditure.save() and delete() *)

(* super().save() of an Expenditure: the write fails on the unique date
   before any signal is sent, otherwise the row is stored *)
ExpenditureWrite(p, op, old, row) ==
    IF UniqueViolation(row.id, row.date)
    THEN /\ expenditures' = expenditures
         /\ proc' = [proc EXCEPT ![p] =
                        [IdleProc EXCEPT !.pc = "rejected", !.op = op,
                                         !.instance = row]]
    ELSE /\ expenditures' = (expenditures \ old) \cup {row}
         /\ proc' = [proc EXCEPT ![p] = AfterWrite(op, row, {row} = old)]

ExpenditureCreate(p) ==
    /\ CanStart(p)
    /\ \E cal \in CalVals, d \in Days :
         ExpenditureWrite(p, "expenditure_create", {},
                          [id |-> NewId(expenditures), calories |-> cal, date |-> d])
    /\ Started
    /\ UNCHANGED <<intakes, userprofiles, response>>

ExpenditureUpdate(p) ==
    /\ CanStart(p)
    /\ \E old \in expenditures, cal \in CalVals, d \in Days :
         ExpenditureWrite(p, "expenditure_update", {old},
                          [id |-> old.id, calories |-> cal, date |-> d])
    /\ Started
    /\ UNCHANGED <<intakes, userprofiles, response>>

ExpenditureDelete(p) ==
    /\ CanStart(p)
    /\ \E old \in expenditures :
         /\ expenditures' = expenditures \ {old}
         /\ proc' = [proc EXCEPT ![p] = AfterWrite("expenditure_delete", old, FALSE)]
    /\ Started
    /\ UNCHANGED <<intakes, userprofiles, response>>

-----------------------------------------------------------------------------
(* update_previous_day_surplus_calories(date), one step per query *)

ReadIntake(p) ==
    /\ proc[p].pc = "read_intake"
    /\ LET range == get_datetime_range_for_date(previous_day(proc[p].date))
       IN proc' = [proc EXCEPT ![p].pc = "read_expenditure",
                               ![p].total_intake =
                                   aggregate_calories_for_date_range(
                                       intakes, range[1], range[2])]
    /\ UNCHANGED <<intakes, expenditures, userprofiles, nops, overlaps, response>>

ReadExpenditure(p) ==
    /\ proc[p].pc = "read_expenditure"
    /\ proc' = [proc EXCEPT ![p].pc = "read_profile",
                            ![p].total_expenditure =
                                expenditure_calories_on(
                                    expenditures, previous_day(proc[p].date))]
    /\ UNCHANGED <<intakes, expenditures, userprofiles, nops, overlaps, response>>

(* Variant: the receiver of post_delete runs after the delete is committed *)
InDeleteTransactionNever(op) == FALSE

(* The receiver runs inside a transaction the operation has open: Django's
   Model.delete() sends post_delete inside the atomic block of the deletion,
   Model.save() sends post_save after its write is committed (autocommit) *)
InDeleteTransaction(op) == op \in {"intake_delete", "expenditure_delete"}

(* The table once the exception has left the operation: a deletion that is
   still inside its transaction is rolled back, so the row is there again *)
AfterError(rows, op, ops, instance) ==
    IF op \in ops /\ InDeleteTransaction(op) THEN rows \cup {instance} ELSE rows

(* UserProfile.objects.first(); reading goal_daily_calorie_delta of None
   raises AttributeError, which leaves the receiver and the operation *)
ReadProfile(p) ==
    /\ proc[p].pc = "read_profile"
    /\ IF userprofiles = {}
       THEN /\ proc' = [proc EXCEPT ![p].pc = "error"]
            /\ intakes' = AfterError(intakes, proc[p].op,
                                     {"intake_delete"}, proc[p].instance)
            /\ expenditures' = AfterError(expenditures, proc[p].op,
                                          {"expenditure_delete"}, proc[p].instance)
       ELSE /\ proc' = [proc EXCEPT ![p].pc = "save_profile",
                                    ![p].user_profile = FirstProfile]
            /\ UNCHANGED <<intakes, expenditures>>
    /\ UNCHANGED <<userprofiles, nops, overlaps, response>>

(* user_profile.save() writes every column of the row from the object in
   memory; then the next recompute of the operation starts, or it returns *)
SaveProfile(p) ==
    /\ proc[p].pc = "save_profile"
    /\ LET pr == proc[p]
           saved == NewProfile(pr.user_profile, pr.total_expenditure, pr.total_intake)
           ran == Append(pr.done, pr.date)
       IN /\ userprofiles' = {saved}
          /\ proc' = [proc EXCEPT ![p] =
                IF pr.call < pr.calls
                THEN [pr EXCEPT !.pc = "read_intake", !.call = pr.call + 1,
                                !.date = recompute_date(pr.op, pr.call + 1, pr.instance),
                                !.user_profile = saved, !.done = ran]
                ELSE [pr EXCEPT !.pc = "return", !.user_profile = saved, !.done = ran]]
    /\ UNCHANGED <<intakes, expenditures, nops, overlaps, response>>

(* The operation returns to its caller (or the exception reaches it) *)
Return(p) ==
    /\ proc[p].pc \in {"return", "rejected", "error"}
    /\ proc' = [proc EXCEPT ![p] = IdleProc]
    /\ UNCHANGED <<intakes, expenditures, userprofiles, nops, overlaps, response>>

(* The goal is edited directly on the profile row (admin site) *)
SetGoal(g) ==
    /\ nops < MaxOps
    /\ Quiescent \/ overlaps < MaxOverlap
    /\ userprofiles # {}
    /\ FirstProfile.goal_daily_calorie_delta # g
    /\ userprofiles' = {[FirstProfile EXCEPT !.goal_daily_calorie_delta = g]}
    /\ Started
    /\ UNCHANGED <<intakes, expenditures, proc, response>>

-----------------------------------------------------------------------------
(* Specification: request handlers run concurrently *)

Next ==
    \/ \E p \in Procs : IntakeCreate(p)
    \/ \E p \in Procs : IntakeUpdate(p)
    \/ \E p \in Procs : IntakeDelete(p)
    \/ \E p \in Procs : ExpenditureCreate(p)
    \/ \E p \in Procs : ExpenditureUpdate(p)
    \/ \E p \in Procs : ExpenditureDelete(p)
    \/ \E p \in Procs : ReadIntake(p)
    \/ \E p \in Procs : ReadExpenditure(p)
    \/ \E p \in Procs : ReadProfile(p)
    \/ \E p \in Procs : SaveProfile(p)
    \/ \E p \in Procs : Return(p)
    \/ \E g \in GoalVals : SetGoal(g)

Spec == Init /\ [][Next]_vars

(* Read endpoints (views.py) *)

(* aggregate_daily_calories: group by TruncDay, Sum, order_by("date") *)
aggregate_daily_calories(queryset) ==
    LET dates == SortAsc({TruncDay(r.timestamp) : r \in queryset})
    IN [i \in 1..Len(dates) |->
          [date |-> dates[i],
           total_calories |->
               SumCalories({r \in queryset : TruncDay(r.timestamp) = dates[i]})]]

(* datetime.date() of a datetime *)
DateOfDatetime(dt) == dt \div HoursPerDay

(* DailyBalancesView.get: one entry per group of daily_intakes *)
DailyBalances ==
    LET daily_intakes == aggregate_daily_calories(intakes)
        expenditure_dates == {r.date : r \in expenditures}
        expenditures_dict ==
            [d \in expenditure_dates |->
                SumCalories({r \in expenditures : r.date = d})]
    IN [i \in 1..Len(daily_intakes) |->
          LET date == DateOfDatetime(daily_intakes[i].date)
              total_intake == daily_intakes[i].total_calories
              total_expenditure ==
                  IF date \in expenditure_dates THEN expenditures_dict[date] ELSE 0
          IN [date |-> date, total_intake |-> total_intake,
              total_expenditure |-> total_expenditure,
              balance |-> total_intake - total_expenditure]]

(* Variant: the summary takes the adjusted goal *)
calorie_goal_adjusted(total_expenditure, user_profile) ==
    total_expenditure + user_profile.goal_daily_calorie_delta
        - user_profile.previous_day_surplus_calories

(* daily_summary: calorie_goal = total_expenditure + goal_daily_calorie_delta *)
calorie_goal(total_expenditure, user_profile) ==
    total_expenditure + user_profile.goal_daily_calorie_delta

(* daily_summary(date) *)
daily_summary(date) ==
    LET range == get_datetime_range_for_date(date)
        total_intake ==
            aggregate_calories_for_date_range(intakes, range[1], range[2])
        total_expenditure == SumCalories({r \in expenditures : r.date = date})
        goal == calorie_goal(total_expenditure, FirstProfile)
    IN [date |-> date,
        total_calories_consumed |-> total_intake,
        total_expenditure |-> total_expenditure,
        calorie_goal |-> goal,
        remaining_calories_until_goal |-> goal - total_intake]

(* DateRangeOperationsMixin.get_adjusted_goal_for_date: called by no view *)
get_adjusted_goal_for_date(date) ==
    expenditure_calories_on(expenditures, date)
        + FirstProfile.goal_daily_calorie_delta
        - FirstProfile.previous_day_surplus_calories

DailyBalancesGet ==
    /\ Quiescent
    /\ response' = [view |-> "daily_balances", body |-> DailyBalances]
    /\ UNCHANGED <<intakes, expenditures, userprofiles, proc, nops, overlaps>>

DailySummaryGet ==
    /\ Quiescent
    /\ userprofiles # {}
    /\ \E date \in Days :
         response' = [view |-> "daily_summary", body |-> daily_summary(date)]
    /\ UNCHANGED <<intakes, expenditures, userprofiles, proc, nops, overlaps>>

(* The response is sent and the request is over *)
Respond ==
    /\ response # NoResponse
    /\ response' = NoResponse
    /\ UNCHANGED <<intakes, expenditures, userprofiles, proc, nops, overlaps>>

-----------------------------------------------------------------------------
(* Specification: one request at a time *)

NextSeq ==
    \/ Quiescent /\ IntakeCreate(Worker)
    \/ Quiescent /\ IntakeUpdate(Worker)
    \/ Quiescent /\ IntakeDelete(Worker)
    \/ Quiescent /\ ExpenditureCreate(Worker)
    \/ Quiescent /\ ExpenditureUpdate(Worker)
    \/ Quiescent /\ ExpenditureDelete(Worker)
    \/ ReadIntake(Worker)
    \/ ReadExpenditure(Worker)
    \/ ReadProfile(Worker)
    \/ SaveProfile(Worker)
    \/ Return(Worker)
    \/ DailyBalancesGet
    \/ DailySummaryGet
    \/ Respond

SpecSeq == Init /\ [][NextSeq]_vars

-----------------------------------------------------------------------------
(* Specification: one request at a time, starting before the user account
   (and with it the profile) exists *)

(* The database after the migrations: every table is empty *)
InitNoProfile ==
    /\ intakes = {}
    /\ expenditures = {}
    /\ userprofiles = {}
    /\ proc = [p \in Procs |-> IdleProc]
    /\ nops = 0
    /\ overlaps = 0
    /\ response = NoResponse

(* create_or_update_user_profile: the user account is created and the
   receiver creates its profile with the defaults of the fields *)
CreateUser ==
    /\ Quiescent
    /\ userprofiles = {}
    /\ userprofiles' = {DefaultProfile}
    /\ UNCHANGED <<intakes, expenditures, proc, nops, overlaps, response>>

NextNoProfile ==
    \/ Quiescent /\ IntakeCreate(Worker)
    \/ Quiescent /\ IntakeUpdate(Worker)
    \/ Quiescent /\ IntakeDelete(Worker)
    \/ Quiescent /\ ExpenditureCreate(Worker)
    \/ Quiescent /\ ExpenditureUpdate(Worker)
    \/ Quiescent /\ ExpenditureDelete(Worker)
    \/ ReadIntake(Worker)
    \/ ReadExpenditure(Worker)
    \/ ReadProfile(Worker)
    \/ SaveProfile(Worker)
    \/ Return(Worker)
    \/ CreateUser
    \/ Quiescent /\ (\E g \in GoalVals : SetGoal(g))

SpecNoProfile == InitNoProfile /\ [][NextNoProfile]_vars

-----------------------------------------------------------------------------
(* Vocabulary of the properties *)

Goal == FirstProfile.goal_daily_calorie_delta

(* Calories of the intakes whose local date is d *)
IntakeOnDay(d) == SumCalories({r \in intakes : LocalDate(r.timestamp) = d})

(* Calories of the expenditure rows dated d *)
ExpenditureOnDay(d) == SumCalories({r \in expenditures : r.date = d})

(* The goal left unmet on the single day before d, floored at 0 *)
PreviousDayShortfall(d) ==
    Max(0, Abs(Goal) - (ExpenditureOnDay(d - 1) - IntakeOnDay(d - 1)))

(* The dates that hold a record *)
RecordDates ==
    {LocalDate(r.timestamp) : r \in intakes} \cup {r.date : r \in expenditures}

(* The window of section 4.3 of the specification for a recompute at d:
   from the earliest record to d - 1 *)
WindowStart(d) ==
    IF RecordDates = {} THEN d - 1
    ELSE CHOOSE w \in RecordDates : \A x \in RecordDates : w <= x

WindowDays(d) == {x \in RecordDates : WindowStart(d) <= x /\ x <= d - 1}

RECURSIVE SumOver(_, _)
SumOver(f, S) ==
    IF S = {} THEN 0
    ELSE LET x == CHOOSE y \in S : TRUE IN f[x] + SumOver(f, S \ {x})

WindowNetDelta(d) ==
    SumOver([x \in WindowDays(d) |-> ExpenditureOnDay(x) - IntakeOnDay(x)],
            WindowDays(d))

WindowNumDays(d) == Max(0, (d - 1) - WindowStart(d))

WindowGoalTotal(d) == Goal * WindowNumDays(d)

(* This step is the write of the recompute handler p is running *)
Saves(p) == proc[p].pc = "save_profile" /\ proc'[p].pc # "save_profile"

(* The operation of handler p has run to its end *)
Returned(p) == proc[p].pc = "return"

(* The calendar date of the record the operation of p wrote or deleted *)
AffectedDate(p) ==
    IF proc[p].op \in {"intake_create", "intake_update", "intake_delete"}
    THEN LocalDate(proc[p].instance.timestamp)
    ELSE proc[p].instance.date

-----------------------------------------------------------------------------
(* C1 *)

(* C1, as stated: the stored adjustment depends on the rows and the goal
   alone, so an operation that ends with the rows and the goal it started
   with (a record saved again with the values it has) ends with the
   adjustment it started with, whichever record it touched. *)
C1_RowsAndGoalDecide ==
    \A p \in Procs :
        (Returned(p) /\ proc[p].unchanged) => StoredSurplus = proc[p].before

(* C1, amended: when an operation returns, the stored adjustment is decided
   by the rows, the goal and the date D of the record mutated last: it is the
   unmet part of the goal on day D - 1. *)
C1_RowsGoalAndDateDecide ==
    \A p \in Procs :
        Returned(p) => StoredSurplus = PreviousDayShortfall(AffectedDate(p))

(* An operation has returned and another date would have given another value *)
C1_Witness ==
    \E p \in Procs :
        /\ Returned(p)
        /\ proc[p].unchanged
        /\ StoredSurplus # proc[p].before
        /\ \E d \in Days : PreviousDayShortfall(d) # StoredSurplus

-----------------------------------------------------------------------------
(* C2 *)

(* C2, as stated: a recompute for D stores |g * numDays| - (totalExpenditure
   - totalIntake) over all history from the earliest record to D - 1. *)
C2_WholeHistoryWindow ==
    \A p \in Procs :
        Returned(p) =>
            StoredSurplus = Abs(WindowGoalTotal(proc[p].date))
                                - WindowNetDelta(proc[p].date)

(* C2, amended: every recompute for D stores max(0, |g| - (totalExpenditure
   - totalIntake)) with the totals of the single day D - 1. *)
C2_PreviousDayWindow ==
    [][\A p \in Procs :
          Saves(p) =>
              StoredSurplus' =
                  LET d == proc[p].date - 1
                      g == proc[p].user_profile.goal_daily_calorie_delta
                      net == ExpenditureOnDay(d) - IntakeOnDay(d)
                  IN IF Abs(g) - net > 0 THEN Abs(g) - net ELSE 0]_vars

(* A recompute has stored a value taken from day D - 1 while older records,
   which the whole-history window would count, exist *)
C2_Witness ==
    \E p \in Procs :
        /\ Returned(p)
        /\ \E x \in RecordDates :
              x < proc[p].date - 1 /\ ExpenditureOnDay(x) + IntakeOnDay(x) > 0
        /\ ExpenditureOnDay(proc[p].date - 1) > 0
        /\ StoredSurplus > 0

-----------------------------------------------------------------------------
(* C3 *)

(* C3, as stated: when the net deficit over the window exceeds |goalTotal|
   the stored adjustment is negative, never replaced by 0. *)
C3_StoredUnclamped ==
    \A p \in Procs :
        (Returned(p)
           /\ WindowNetDelta(proc[p].date) > Abs(WindowGoalTotal(proc[p].date)))
        => StoredSurplus < 0

(* C3, amended: the stored adjustment is never negative, and when the net
   deficit of day D - 1 reaches |g| the recompute stores 0. *)
C3_StoredClamped ==
    /\ StoredSurplus >= 0
    /\ \A p \in Procs :
          (Returned(p)
             /\ ExpenditureOnDay(AffectedDate(p) - 1)
                  - IntakeOnDay(AffectedDate(p) - 1) >= Abs(Goal))
          => StoredSurplus = 0

(* The deficit goal was exceeded on day D - 1 and 0 is stored *)
C3_Witness ==
    \E p \in Procs :
        /\ Returned(p)
        /\ Goal < 0
        /\ ExpenditureOnDay(AffectedDate(p) - 1)
             - IntakeOnDay(AffectedDate(p) - 1) > Abs(Goal)
        /\ StoredSurplus = 0

-----------------------------------------------------------------------------
(* C4 *)

NoRecordBefore(d) == \A x \in RecordDates : x >= d

(* C4, as stated: with no record before D a recompute for D stores 0,
   whatever the goal. *)
C4_ZeroWindowStoresZero ==
    \A p \in Procs :
        (Returned(p) /\ NoRecordBefore(AffectedDate(p))) => StoredSurplus = 0

(* C4, amended: with no record before D a recompute for D stores |g|, the
   whole goal of the empty day D - 1 (0 only when the goal is 0). *)
C4_ZeroWindowStoresGoal ==
    \A p \in Procs :
        (Returned(p) /\ NoRecordBefore(AffectedDate(p)))
        => StoredSurplus = Abs(Goal)

(* A recompute ran with nothing recorded before its date and a goal set,
   while day D itself holds calories *)
C4_Witness ==
    \E p \in Procs :
        /\ Returned(p)
        /\ NoRecordBefore(AffectedDate(p))
        /\ Goal # 0
        /\ ExpenditureOnDay(AffectedDate(p)) > 0
        /\ StoredSurplus = Abs(Goal)

-----------------------------------------------------------------------------
(* C5 *)

(* C5: the second of two recomputes run in a row on unchanged data (the one
   in the body of save(), after the one of the post_save receiver) stores
   the value the first one stored. *)
C5_RecomputeIdempotent ==
    [][\A p \in Procs :
          (Saves(p) /\ proc[p].call = 2)
          => StoredSurplus' = StoredSurplus]_vars

(* A save has run both recomputes for the same date; the first one changed
   the stored value *)
C5_Witness ==
    \E p \in Procs :
        /\ Returned(p)
        /\ Len(proc[p].done) = 2
        /\ proc[p].done[1] = proc[p].done[2]
        /\ StoredSurplus > 0
        /\ StoredSurplus # proc[p].before

-----------------------------------------------------------------------------
(* C6 *)

(* C6, first part: at most one recompute is in progress at any time. *)
C6_AtMostOneRecompute ==
    Cardinality({p \in Procs : InRecompute(p)}) <= 1

(* C6, as stated: when two operations have overlapped and the last recompute
   of the one writes after the other has run to its end, the adjustment
   stored is the one a recompute for the date of either, over the rows and
   the goal then in storage, gives: no update is lost. *)
C6_NoLostUpdate ==
    [][\A p \in Procs :
          (/\ Saves(p)
           /\ proc[p].call = proc[p].calls
           /\ \A q \in Procs \ {p} : Returned(q))
          => StoredSurplus' \in
                 {PreviousDayShortfall(proc[r].date)' : r \in Procs}]_vars

-----------------------------------------------------------------------------
(* C7 *)

(* C7: an operation that wrote or deleted a record returns only after at
   least one recompute has run to its end, and every recompute it runs is
   called with the date of that record. *)
C7_RecomputeFollowsMutation ==
    \A p \in Procs :
        /\ InRecompute(p) => proc[p].date = AffectedDate(p)
        /\ Returned(p) =>
              /\ Len(proc[p].done) >= 1
              /\ \A i \in 1..Len(proc[p].done) : proc[p].done[i] = AffectedDate(p)

(* A delete has returned after its recompute; the deleted row was dated
   after the first day *)
C7_Witness ==
    \E p \in Procs :
        /\ Returned(p)
        /\ proc[p].op = "intake_delete"
        /\ AffectedDate(p) > 0
        /\ proc[p].done = <<AffectedDate(p)>>

-----------------------------------------------------------------------------
(* C8 *)

UniqueDates ==
    \A r1, r2 \in expenditures : r1.date = r2.date => r1 = r2

(* C8: no two Expenditure rows share a date; a write that would make two is
   rejected, leaves the tables as they are and runs no recompute. *)
C8_OneExpenditurePerDate ==
    /\ [](UniqueDates
          /\ \A p \in Procs : proc[p].pc = "rejected" => proc[p].done = <<>>)
    /\ [][\A p \in Procs :
            (proc[p].pc = "idle"
               /\ proc'[p].op \in {"expenditure_create", "expenditure_update"}
               /\ \E r \in expenditures :
                     r.date = proc'[p].instance.date /\ r.id # proc'[p].instance.id)
            => /\ proc'[p].pc = "rejected"
               /\ expenditures' = expenditures
               /\ intakes' = intakes
               /\ userprofiles' = userprofiles]_vars

(* A second Expenditure for a taken date has been rejected *)
C8_Witness ==
    \E p \in Procs :
        /\ proc[p].pc = "rejected"
        /\ proc[p].op = "expenditure_create"
        /\ \E r \in expenditures : r.date = proc[p].instance.date

-----------------------------------------------------------------------------
(* C9 *)

(* C9, as stated: dailyBalances lists, in ascending order, exactly the dates
   that hold an Intake or an Expenditure, each once, with
   balance = total_intake - total_expenditure. *)
C9_EveryRecordedDateListed ==
    response.view = "daily_balances" =>
        LET body == response.body
        IN /\ {body[i].date : i \in 1..Len(body)} = RecordDates
           /\ \A i, j \in 1..Len(body) : i < j => body[i].date < body[j].date
           /\ \A i \in 1..Len(body) :
                 /\ body[i].total_intake = IntakeOnDay(body[i].date)
                 /\ body[i].total_expenditure = ExpenditureOnDay(body[i].date)
                 /\ body[i].balance =
                        body[i].total_intake - body[i].total_expenditure

-----------------------------------------------------------------------------
(* C10 *)

(* C10, as stated: the summary's goal is total_expenditure + goal delta -
   adjustment, and the remaining calories are that goal - total_intake. *)
C10_SummaryAppliesAdjustment ==
    response.view = "daily_summary" =>
        LET body == response.body
            effective == ExpenditureOnDay(body.date) + Goal - StoredSurplus
        IN /\ body.calorie_goal = effective
           /\ body.remaining_calories_until_goal = effective - IntakeOnDay(body.date)

(* C10, amended: the summary's goal is total_expenditure + goal delta and the
   remaining calories are that goal - total_intake; the response has no
   adjustment field and the stored adjustment changes neither number. *)
C10_SummaryIgnoresAdjustment ==
    response.view = "daily_summary" =>
        LET body == response.body
        IN /\ body.calorie_goal = ExpenditureOnDay(body.date) + Goal
           /\ body.remaining_calories_until_goal =
                  ExpenditureOnDay(body.date) + Goal - IntakeOnDay(body.date)
           /\ DOMAIN body = {"date", "total_calories_consumed", "total_expenditure",
                             "calorie_goal", "remaining_calories_until_goal"}

(* A summary was computed while a positive adjustment is stored *)
C10_Witness ==
    /\ response.view = "daily_summary"
    /\ StoredSurplus > 0
    /\ response.body.total_expenditure > 0
    /\ response.body.total_calories_consumed > 0

-----------------------------------------------------------------------------
(* C11 *)

(* C11: the write of a recompute changes only the adjustment of the profile:
   the Intake and Expenditure rows stay as they are, and goal_weight and
   goal_daily_calorie_delta keep the values the stored row has at the moment
   of the write, also when the goal was edited after the recompute read the
   profile. *)
C11_RecomputeWritesOnlyAdjustment ==
    [][\A p \in Procs :
          Saves(p) =>
              /\ intakes' = intakes
              /\ expenditures' = expenditures
              /\ FirstProfile'.goal_weight = FirstProfile.goal_weight
              /\ FirstProfile'.goal_daily_calorie_delta =
                     FirstProfile.goal_daily_calorie_delta]_vars

-----------------------------------------------------------------------------
(* C12 *)

(* The table of the record the operation of handler p wrote or deleted *)
AffectedTable(p) ==
    IF proc[p].op \in {"intake_create", "intake_update", "intake_delete"}
    THEN intakes
    ELSE expenditures

IsDelete(p) == proc[p].op \in {"intake_delete", "expenditure_delete"}

(* With no profile the recompute neither reaches its write nor lets the
   operation return normally, and it stores nothing *)
FailsInRecompute(p) ==
    /\ proc[p].pc \in {"save_profile", "return"} => userprofiles # {}
    /\ proc[p].pc = "error" => userprofiles = {} /\ proc[p].done = <<>>

(* C12, as stated: with no profile a save or delete fails inside the
   recompute, nothing is stored, and the record change of the operation
   stays: the row written is in the table, the row deleted is not. *)
C12_RecordChangeStays ==
    \A p \in Procs :
        /\ FailsInRecompute(p)
        /\ proc[p].pc = "error" =>
               IF IsDelete(p)
               THEN proc[p].instance \notin AffectedTable(p)
               ELSE proc[p].instance \in AffectedTable(p)

(* C12, amended: with no profile a save or delete fails inside the
   recompute and nothing is stored; the row written by a save is in the
   table after the failure, and the row of a failed delete is in the table
   as well, because the failure rolls the deletion back. *)
C12_SaveStaysDeleteRolledBack ==
    \A p \in Procs :
        /\ FailsInRecompute(p)
        /\ proc[p].pc = "error" => proc[p].instance \in AffectedTable(p)

(* A delete has failed in the recompute; the row it was asked to remove had
   been left by a save that failed the same way *)
C12_Witness ==
    \E p \in Procs :
        /\ proc[p].pc = "error"
        /\ IsDelete(p)
        /\ userprofiles = {}

====
